---------------------------- MODULE Spec2Model ----------------------------
(***************************************************************************)
(* Model of the web terminal component                                     *)
(* frontend/src/components/Terminal.tsx: its React state, the key          *)
(* handlers, the asynchronous submission pipeline (simulated delay, typing *)
(* effect, commit of the output line) and the timers it starts.            *)
(*                                                                         *)
(* JavaScript strings are sequences of UTF-16 code units; a code unit is a *)
(* one-character TLA+ string, or "uXXXX" for a unit outside ASCII.         *)
(***************************************************************************)
EXTENDS Integers, Sequences, FiniteSets, TLC

(***************************************************************************)
(* JavaScript string and array primitives used by the component            *)
(***************************************************************************)
UpperChars ==
  <<"A","B","C","D","E","F","G","H","I","J","K","L","M","N","O","P","Q","R","S","T","U","V","W","X","Y","Z">>

LowerChars ==
  <<"a","b","c","d","e","f","g","h","i","j","k","l","m","n","o","p","q","r","s","t","u","v","w","x","y","z">>

DigitChars ==
  <<"0","1","2","3","4","5","6","7","8","9">>

WhiteSpace ==
  {" ", "\t", "\n"}

\* String.prototype.toLowerCase on one code unit
LowerOf ==
  [c \in {UpperChars[i] : i \in 1..Len(UpperChars)} |->
     LowerChars[CHOOSE i \in 1..Len(UpperChars) : UpperChars[i] = c]]

toLowerChar(c) ==
  IF c \in DOMAIN LowerOf THEN LowerOf[c] ELSE c

\* String.prototype.toLowerCase
toLowerCase(s) ==
  [i \in 1..Len(s) |-> toLowerChar(s[i])]

\* String.prototype.trim: drops the white space at both ends
trim(s) ==
  IF \A i \in 1..Len(s) : s[i] \in WhiteSpace THEN <<>>
  ELSE LET first == CHOOSE i \in 1..Len(s) :
                      /\ s[i] \notin WhiteSpace
                      /\ \A j \in 1..(i - 1) : s[j] \in WhiteSpace
           last  == CHOOSE i \in 1..Len(s) :
                      /\ s[i] \notin WhiteSpace
                      /\ \A j \in (i + 1)..Len(s) : s[j] \in WhiteSpace
       IN  SubSeq(s, first, last)

\* String.prototype.startsWith
startsWith(s, p) ==
  /\ Len(p) <= Len(s)
  /\ SubSeq(s, 1, Len(p)) = p

\* String.prototype.substring(n): the code units from 0-based index n on
substring(s, n) ==
  SubSeq(s, n + 1, Len(s))

\* String.prototype.split(sep) for a one-unit separator: consecutive
\* separators give empty tokens, and the result always has one token or more
RECURSIVE split(_, _)
split(s, sep) ==
  IF \A i \in 1..Len(s) : s[i] # sep THEN <<s>>
  ELSE LET k == CHOOSE i \in 1..Len(s) :
                  s[i] = sep /\ \A j \in 1..(i - 1) : s[j] # sep
       IN  <<SubSeq(s, 1, k - 1)>> \o split(SubSeq(s, k + 1, Len(s)), sep)

\* Array.prototype.join
RECURSIVE join(_, _)
join(parts, sep) ==
  IF Len(parts) = 0 THEN <<>>
  ELSE IF Len(parts) = 1 THEN parts[1]
  ELSE parts[1] \o sep \o join(Tail(parts), sep)

\* Array.prototype.slice(1)
slice1(parts) ==
  IF Len(parts) = 0 THEN <<>> ELSE Tail(parts)

\* undefined, as the string it becomes when it is concatenated, used as a
\* property key or handed to parseInt
Undefined ==
  <<"u","n","d","e","f","i","n","e","d">>

\* parts[i] with a 0-based index on an array of strings
at(parts, i) ==
  IF i >= 0 /\ i < Len(parts) THEN parts[i + 1] ELSE Undefined

\* text[i] with a 0-based index, as the string that "prev + text[i]" appends
charAt(text, i) ==
  IF i >= 0 /\ i < Len(text) THEN <<text[i + 1]>> ELSE Undefined

DigitValue(c) ==
  (CHOOSE i \in 1..10 : DigitChars[i] = c) - 1

\* Number.prototype.toString for an integer
RECURSIVE NatToString(_)
NatToString(n) ==
  IF n < 10 THEN <<DigitChars[n + 1]>>
  ELSE NatToString(n \div 10) \o <<DigitChars[(n % 10) + 1]>>

toString(n) ==
  IF n < 0 THEN <<"-">> \o NatToString(0 - n) ELSE NatToString(n)

\* The value of a string of decimal digits
RECURSIVE DigitsValue(_)
DigitsValue(ds) ==
  IF Len(ds) = 0 THEN 0
  ELSE 10 * DigitsValue(SubSeq(ds, 1, Len(ds) - 1)) + DigitValue(ds[Len(ds)])

\* the result of parseInt: a number, or NaN
NaN ==
  [nan |-> TRUE, val |-> 0]

Num(v) ==
  [nan |-> FALSE, val |-> v]

\* parseInt(s): skips leading white space, reads an optional sign and the
\* longest run of decimal digits, ignores what follows; NaN without a digit.
parseInt(s) ==
  LET nonws == {i \in 1..Len(s) : s[i] \notin WhiteSpace}
      start == IF nonws = {} THEN Len(s) + 1
               ELSE CHOOSE i \in nonws : \A j \in nonws : i <= j
      rest  == SubSeq(s, start, Len(s))
      neg   == Len(rest) > 0 /\ rest[1] = "-"
      body  == IF Len(rest) > 0 /\ rest[1] \in {"-", "+"} THEN Tail(rest) ELSE rest
      isDig(c) == \E i \in 1..10 : DigitChars[i] = c
      stops == {i \in 1..Len(body) : ~isDig(body[i])}
      n     == IF stops = {} THEN Len(body)
               ELSE (CHOOSE i \in stops : \A j \in stops : i <= j) - 1
      v     == DigitsValue(SubSeq(body, 1, n))
  IN  IF n = 0 THEN NaN ELSE IF neg THEN Num(0 - v) ELSE Num(v)

\* a JavaScript relational comparison with a number: false when NaN
NumGE(x, lo) ==
  ~x.nan /\ x.val >= lo

NumLE(x, hi) ==
  ~x.nan /\ x.val <= hi

\* truthiness of a string: the empty string is falsy
Truthy(s) ==
  Len(s) > 0

(***************************************************************************)
(* Bounds of the model                                                     *)
(***************************************************************************)
\* non-empty submissions per session
MaxSubmit ==
  2

\* Date.now() when the component mounts
StartTime ==
  1000

\* the time a user lets pass between two actions, when no timer is due first
UserGap ==
  150

\* uses of the header controls (theme select, fullscreen button) per session
MaxHeaderClicks ==
  1

\* a maxLines prop equal to the number of initial lines
SmallMaxLines ==
  4

(***************************************************************************)
(* Program constants                                                       *)
(***************************************************************************)
CursorBlinkMs ==
  500

TypeSpeedMs ==
  20

TypePauseMs ==
  200

ProcessingDelayMs ==
  300

MinFontSize ==
  10

MaxFontSize ==
  24

DefaultFontSize ==
  14

NoHistoryIndex ==
  -1

\* Object.keys(themes)
themes ==
  <<<<"d","a","r","k">>, <<"l","i","g","h","t">>, <<"m","a","t","r","i","x">>, <<"r","e","t","r","o">>>>

ThemeNames ==
  {themes[i] : i \in 1..Len(themes)}

\* property names every object inherits from Object.prototype: themes[name]
\* is a function (truthy) for each of them
ObjectPrototypeKeys ==
  {<<"c","o","n","s","t","r","u","c","t","o","r">>, <<"t","o","S","t","r","i","n","g">>, <<"v","a","l","u","e","O","f">>, <<"h","a","s","O","w","n","P","r","o","p","e","r","t","y">>,
   <<"i","s","P","r","o","t","o","t","y","p","e","O","f">>, <<"p","r","o","p","e","r","t","y","I","s","E","n","u","m","e","r","a","b","l","e">>, <<"t","o","L","o","c","a","l","e","S","t","r","i","n","g">>}

\* the truthiness of themes[name]
themesHas(name) ==
  name \in ThemeNames \cup ObjectPrototypeKeys

initialTheme ==
  <<"d","a","r","k">>

initialPrompt ==
  <<"a","i","-","o","s",">">>

HelpText ==
  <<"A","v","a","i","l","a","b","l","e"," ","c","o","m","m","a","n","d","s",":","\n","u2022"," ","h","e","l","p"," ","-"," ","S","h","o","w"," ","t","h","i","s"," ","h","e","l","p","\n","u2022"," ","c","l","o","n","e"," ","-"," ","S","h","o","w"," ","r","e","p","o","s","i","t","o","r","y"," ","c","l","o","n","i","n","g"," ","i","n","s","t","r","u","c","t","i","o","n","s","\n","u2022"," ","c","l","e","a","r"," ","-"," ","C","l","e","a","r"," ","t","e","r","m","i","n","a","l","\n","u2022"," ","h","i","s","t","o","r","y"," ","-"," ","S","h","o","w"," ","c","o","m","m","a","n","d"," ","h","i","s","t","o","r","y","\n","u2022"," ","t","h","e","m","e"," ","<","n","a","m","e",">"," ","-"," ","C","h","a","n","g","e"," ","t","h","e","m","e"," ","(","d","a","r","k",","," ","l","i","g","h","t",","," ","m","a","t","r","i","x",","," ","r","e","t","r","o",")","\n","u2022"," ","p","r","o","m","p","t"," ","<","t","e","x","t",">"," ","-"," ","C","h","a","n","g","e"," ","p","r","o","m","p","t","\n","u2022"," ","f","o","n","t","s","i","z","e"," ","<","s","i","z","e",">"," ","-"," ","C","h","a","n","g","e"," ","f","o","n","t"," ","s","i","z","e","\n","u2022"," ","f","u","l","l","s","c","r","e","e","n"," ","-"," ","T","o","g","g","l","e"," ","f","u","l","l","s","c","r","e","e","n","\n","u2022"," ","c","p","u"," ","-"," ","S","h","o","w"," ","C","P","U"," ","i","n","f","o","r","m","a","t","i","o","n","\n","u2022"," ","m","e","m"," ","-"," ","S","h","o","w"," ","m","e","m","o","r","y"," ","u","s","a","g","e","\n","u2022"," ","p","s"," ","-"," ","L","i","s","t"," ","r","u","n","n","i","n","g"," ","p","r","o","c","e","s","s","e","s","\n","u2022"," ","d","i","s","k"," ","-"," ","S","h","o","w"," ","d","i","s","k"," ","u","s","a","g","e","\n","u2022"," ","n","e","t","w","o","r","k"," ","-"," ","S","h","o","w"," ","n","e","t","w","o","r","k"," ","s","t","a","t","s","\n","u2022"," ","s","y","s","i","n","f","o"," ","-"," ","S","h","o","w"," ","s","y","s","t","e","m"," ","i","n","f","o","r","m","a","t","i","o","n","\n","u2022"," ","u","p","t","i","m","e"," ","-"," ","S","h","o","w"," ","s","y","s","t","e","m"," ","u","p","t","i","m","e","\n","u2022"," ","e","c","h","o"," ","<","t","e","x","t",">"," ","-"," ","D","i","s","p","l","a","y"," ","t","e","x","t","\n","u2022"," ","d","a","t","e"," ","-"," ","S","h","o","w"," ","c","u","r","r","e","n","t"," ","d","a","t","e","/","t","i","m","e","\n","u2022"," ","w","h","o","a","m","i"," ","-"," ","S","h","o","w"," ","c","u","r","r","e","n","t"," ","u","s","e","r">>

CpuText ==
  <<"C","P","U"," ","U","s","a","g","e",":"," ","4","5",".","2","%","\n","C","o","r","e","s",":"," ","8","\n","F","r","e","q","u","e","n","c","y",":"," ","3",".","2"," ","G","H","z","\n","L","o","a","d"," ","A","v","e","r","a","g","e",":"," ","1",".","2",","," ","1",".","1",","," ","1",".","0">>

MemText ==
  <<"M","e","m","o","r","y",":"," ","6","7",".","3","%"," ","u","s","e","d","\n","U","s","e","d",":"," ","1","0",".","8"," ","G","B","\n","T","o","t","a","l",":"," ","1","6",".","0"," ","G","B","\n","A","v","a","i","l","a","b","l","e",":"," ","5",".","2"," ","G","B","\n","F","r","e","e",":"," ","2",".","1"," ","G","B">>

PsText ==
  <<"P","I","D"," "," "," "," ","N","A","M","E"," "," "," "," "," "," "," "," "," "," "," "," "," "," "," "," ","C","P","U","%"," "," "," "," ","M","E","M","%","\n","1"," "," "," "," "," "," ","S","y","s","t","e","m"," ","I","d","l","e"," ","P","r","o","c","e","s","s"," "," ","0",".","0"," "," "," "," "," ","0",".","0","\n","4"," "," "," "," "," "," ","S","y","s","t","e","m"," "," "," "," "," "," "," "," "," "," "," "," "," "," "," ","0",".","1"," "," "," "," "," ","0",".","2","\n","1","2","3"," "," "," "," ","c","h","r","o","m","e",".","e","x","e"," "," "," "," "," "," "," "," "," "," ","1","5",".","2"," "," "," "," ","8",".","5","\n","4","5","6"," "," "," "," ","c","o","d","e",".","e","x","e"," "," "," "," "," "," "," "," "," "," "," "," "," ","8",".","3"," "," "," "," "," ","4",".","2","\n","7","8","9"," "," "," "," ","p","y","t","h","o","n",".","e","x","e"," "," "," "," "," "," "," "," "," "," "," ","2","5",".","1"," "," "," "," ","1","2",".","3","\n",".",".","."," ","(","s","h","o","w","i","n","g"," ","f","i","r","s","t"," ","5"," ","p","r","o","c","e","s","s","e","s",")">>

DiskText ==
  <<"D","i","s","k",":"," ","5","8",".","7","%"," ","u","s","e","d","\n","U","s","e","d",":"," ","2","3","7"," ","G","B","\n","T","o","t","a","l",":"," ","5","1","2"," ","G","B","\n","F","r","e","e",":"," ","2","7","5"," ","G","B","\n","M","o","u","n","t",":"," ","C",":","\\">>

NetworkText ==
  <<"N","e","t","w","o","r","k"," ","S","t","a","t","i","s","t","i","c","s",":","\n","B","y","t","e","s"," ","S","e","n","t",":"," ","1",".","2"," ","G","B","\n","B","y","t","e","s"," ","R","e","c","e","i","v","e","d",":"," ","3",".","8"," ","G","B","\n","P","a","c","k","e","t","s"," ","S","e","n","t",":"," ","4","5",",","2","3","1","\n","P","a","c","k","e","t","s"," ","R","e","c","e","i","v","e","d",":"," ","6","7",",","8","9","2","\n","A","c","t","i","v","e"," ","C","o","n","n","e","c","t","i","o","n","s",":"," ","2","3">>

SysinfoText ==
  <<"S","y","s","t","e","m"," ","I","n","f","o","r","m","a","t","i","o","n",":","\n","O","S",":"," ","W","i","n","d","o","w","s"," ","1","1"," ","P","r","o","\n","V","e","r","s","i","o","n",":"," ","2","3","H","2","\n","B","u","i","l","d",":"," ","2","2","6","3","1",".","4","1","6","9","\n","A","r","c","h","i","t","e","c","t","u","r","e",":"," ","x","6","4","\n","H","o","s","t","n","a","m","e",":"," ","D","E","S","K","T","O","P","-","A","B","C","1","2","3","\n","U","p","t","i","m","e",":"," ","2"," ","d","a","y","s",","," ","4"," ","h","o","u","r","s",","," ","2","3"," ","m","i","n","u","t","e","s">>

UptimeText ==
  <<"S","y","s","t","e","m"," ","U","p","t","i","m","e",":"," ","2"," ","d","a","y","s",","," ","4"," ","h","o","u","r","s",","," ","2","3"," ","m","i","n","u","t","e","s","\n","B","o","o","t"," ","T","i","m","e",":"," ","2","0","2","5","-","0","9","-","1","9"," ","0","8",":","3","7",":","1","5">>

CloneText ==
  <<"T","o"," ","c","l","o","n","e"," ","t","h","e"," ","A","I"," ","T","e","r","m","i","n","a","l"," ","r","e","p","o","s","i","t","o","r","y",":","\n","\n","G","i","t","H","u","b",":"," ","h","t","t","p","s",":","/","/","g","i","t","h","u","b",".","c","o","m","/","s","a","q","u","i","b","3","4","/","a","i","-","p","y","-","c","l","i","\n","\n","C","o","m","m","a","n","d","s",":","\n"," "," ","g","i","t"," ","c","l","o","n","e"," ","h","t","t","p","s",":","/","/","g","i","t","h","u","b",".","c","o","m","/","s","a","q","u","i","b","3","4","/","a","i","-","p","y","-","c","l","i",".","g","i","t","\n"," "," ","c","d"," ","a","i","-","p","y","-","c","l","i","\n","\n","B","a","c","k","e","n","d"," ","S","e","t","u","p",":","\n"," "," ","p","i","p"," ","i","n","s","t","a","l","l"," ","-","r"," ","r","e","q","u","i","r","e","m","e","n","t","s",".","t","x","t","\n"," "," ","e","c","h","o"," ","\"","G","E","M","I","N","I","_","A","P","I","_","K","E","Y","=","y","o","u","r","_","k","e","y","_","h","e","r","e","\""," ",">"," ",".","e","n","v","\n","\n","\n","U","s","a","g","e",":","\n"," "," ","#"," ","T","e","r","m","i","n","a","l"," ","1",":"," ","S","t","a","r","t"," ","b","a","c","k","e","n","d"," ","d","a","e","m","o","n","\n"," "," ","p","y","t","h","o","n"," ","m","a","i","n",".","p","y"," ","d","a","e","m","o","n","\n","\n"," "," ","#"," ","T","e","r","m","i","n","a","l"," ","2",":"," ","S","t","a","r","t"," ","C","L","I","\n"," "," ","p","y","t","h","o","n"," ","m","a","i","n",".","p","y","\n","\n"," "," ","#"," ","T","e","r","m","i","n","a","l"," ","3",":"," ","O","p","e","n"," ","h","t","t","p",":","/","/","l","o","c","a","l","h","o","s","t",":","3","0","0","0"," ","f","o","r"," ","w","e","b"," ","i","n","t","e","r","f","a","c","e">>

\* new Date().toString(): the platform's rendering of the current time, here
\* the decimal milliseconds
DateString(t) ==
  toString(t)

completions ==
  <<<<"h","e","l","p">>, <<"c","p","u">>, <<"m","e","m">>, <<"p","s">>, <<"d","i","s","k">>, <<"n","e","t","w","o","r","k">>, <<"s","y","s","i","n","f","o">>,
    <<"u","p","t","i","m","e">>, <<"c","l","e","a","r">>, <<"h","i","s","t","o","r","y">>>>

InitialLines(t) ==
  << [id |-> <<"1">>, type |-> "system", timestamp |-> t,
      content |-> <<"uD83E","uDD16"," ","A","I"," ","T","e","r","m","i","n","a","l"," ","v","2",".","0"," ","-"," ","M","o","d","e","r","n"," ","W","e","b"," ","I","n","t","e","r","f","a","c","e">>],
     [id |-> <<"2">>, type |-> "system", timestamp |-> t,
      content |-> <<"uD83D","uDCE6"," ","T","o"," ","g","e","t"," ","t","h","e"," ","f","u","l","l"," ","e","x","p","e","r","i","e","n","c","e",","," ","c","l","o","n","e"," ","t","h","e"," ","r","e","p","o","s","i","t","o","r","y",":">>],
     [id |-> <<"3">>, type |-> "system", timestamp |-> t,
      content |-> <<"g","i","t"," ","c","l","o","n","e"," ","h","t","t","p","s",":","/","/","g","i","t","h","u","b",".","c","o","m","/","s","a","q","u","i","b","3","4","/","a","i","-","p","y","-","c","l","i",".","g","i","t">>],
     [id |-> <<"4">>, type |-> "system", timestamp |-> t,
      content |-> <<"uD83D","uDCA1"," ","T","r","y",":"," ","h","e","l","p",","," ","c","p","u",","," ","m","e","m",","," ","p","s",","," ","d","i","s","k",","," ","n","e","t","w","o","r","k",","," ","s","y","s","i","n","f","o",","," ","u","p","t","i","m","e">>] >>

(***************************************************************************)
(* The command interpreter                                                 *)
(***************************************************************************)
NoMutation ==
  [kind |-> "none", arg |-> <<>>]

Result(reply, mutation) ==
  [reply |-> reply, mutation |-> mutation]

\* history.map((cmd, i) => `${i + 1}. ${cmd}`)
historyMap(hist) ==
  [i \in 1..Len(hist) |-> toString(i) \o <<"."," ">> \o hist[i]]

\* case 'history'
historyReply(hist) ==
  IF Len(hist) = 0 THEN <<"N","o"," ","c","o","m","m","a","n","d"," ","h","i","s","t","o","r","y">>
  ELSE join(historyMap(hist), <<"\n">>)

\* (mutant) clear replies with a text
clearCaseWithReply ==
  Result(<<"T","e","r","m","i","n","a","l"," ","c","l","e","a","r","e","d">>, [kind |-> "clear", arg |-> <<>>])

\* case 'clear'
clearCase ==
  Result(<<>>, [kind |-> "clear", arg |-> <<>>])

\* (mutant) the theme name is taken from the first token
themeBranchFirstToken(command) ==
  LET newTheme == at(split(command, " "), 0)
  IN  IF themesHas(newTheme)
        THEN Result(<<"T","h","e","m","e"," ","c","h","a","n","g","e","d"," ","t","o",":"," ">> \o newTheme,
                    [kind |-> "theme", arg |-> newTheme])
        ELSE Result(<<"A","v","a","i","l","a","b","l","e"," ","t","h","e","m","e","s",":"," ">> \o join(themes, <<","," ">>), NoMutation)

\* the theme branch of the default case
themeBranch(command) ==
  LET newTheme == at(split(command, " "), 1)
  IN  IF themesHas(newTheme)
        THEN Result(<<"T","h","e","m","e"," ","c","h","a","n","g","e","d"," ","t","o",":"," ">> \o newTheme,
                    [kind |-> "theme", arg |-> newTheme])
        ELSE Result(<<"A","v","a","i","l","a","b","l","e"," ","t","h","e","m","e","s",":"," ">> \o join(themes, <<","," ">>), NoMutation)

\* the prompt branch of the default case
promptBranch(command) ==
  LET newPrompt == join(slice1(split(command, " ")), <<" ">>)
  IN  Result(<<"P","r","o","m","p","t"," ","c","h","a","n","g","e","d"," ","t","o",":"," ">> \o newPrompt,
             [kind |-> "prompt", arg |-> newPrompt])

\* (mutant) the bounds of the font size are exclusive
fontsizeBranchExclusive(command) ==
  LET size == parseInt(at(split(command, " "), 1))
  IN  IF NumGE(size, MinFontSize + 1) /\ NumLE(size, MaxFontSize - 1)
        THEN Result(<<"F","o","n","t"," ","s","i","z","e"," ","c","h","a","n","g","e","d"," ","t","o",":"," ">> \o toString(size.val) \o <<"p","x">>,
                    [kind |-> "fontsize", arg |-> size.val])
        ELSE Result(<<"F","o","n","t"," ","s","i","z","e"," ","m","u","s","t"," ","b","e"," ","b","e","t","w","e","e","n"," ","1","0","-","2","4","p","x">>, NoMutation)

\* the fontsize branch of the default case
fontsizeBranch(command) ==
  LET size == parseInt(at(split(command, " "), 1))
  IN  IF NumGE(size, MinFontSize) /\ NumLE(size, MaxFontSize)
        THEN Result(<<"F","o","n","t"," ","s","i","z","e"," ","c","h","a","n","g","e","d"," ","t","o",":"," ">> \o toString(size.val) \o <<"p","x">>,
                    [kind |-> "fontsize", arg |-> size.val])
        ELSE Result(<<"F","o","n","t"," ","s","i","z","e"," ","m","u","s","t"," ","b","e"," ","b","e","t","w","e","e","n"," ","1","0","-","2","4","p","x">>, NoMutation)

\* the fullscreen branch: fs is the isFullscreen of the render whose
\* handler started the submission
fullscreenBranch(fs) ==
  Result(<<"F","u","l","l","s","c","r","e","e","n",":"," ">> \o (IF ~fs THEN <<"O","N">> ELSE <<"O","F","F">>),
         [kind |-> "fullscreen", arg |-> ~fs])

\* (mutant) echo replies with the lower-cased command
echoBranchLowered(command) ==
  Result(substring(toLowerCase(command), 5), NoMutation)

\* the echo branch of the default case
echoBranch(command) ==
  Result(substring(command, 5), NoMutation)

\* (mutant) the not-found reply names the lower-cased command
defaultCaseLowered(command, cmd, fs) ==
  IF startsWith(cmd, <<"e","c","h","o"," ">>) THEN echoBranch(command)
  ELSE IF startsWith(cmd, <<"t","h","e","m","e"," ">>) THEN themeBranch(command)
  ELSE IF startsWith(cmd, <<"p","r","o","m","p","t"," ">>) THEN promptBranch(command)
  ELSE IF startsWith(cmd, <<"f","o","n","t","s","i","z","e"," ">>) THEN fontsizeBranch(command)
  ELSE IF cmd = <<"f","u","l","l","s","c","r","e","e","n">> THEN fullscreenBranch(fs)
  ELSE Result(<<"C","o","m","m","a","n","d"," ","n","o","t"," ","f","o","u","n","d",":"," ">> \o cmd
              \o <<"."," ","T","y","p","e"," ","'","h","e","l","p","'"," ","f","o","r"," ","a","v","a","i","l","a","b","l","e"," ","c","o","m","m","a","n","d","s",".">>, NoMutation)

\* the default case of the switch
defaultCase(command, cmd, fs) ==
  IF startsWith(cmd, <<"e","c","h","o"," ">>) THEN echoBranch(command)
  ELSE IF startsWith(cmd, <<"t","h","e","m","e"," ">>) THEN themeBranch(command)
  ELSE IF startsWith(cmd, <<"p","r","o","m","p","t"," ">>) THEN promptBranch(command)
  ELSE IF startsWith(cmd, <<"f","o","n","t","s","i","z","e"," ">>) THEN fontsizeBranch(command)
  ELSE IF cmd = <<"f","u","l","l","s","c","r","e","e","n">> THEN fullscreenBranch(fs)
  ELSE Result(<<"C","o","m","m","a","n","d"," ","n","o","t"," ","f","o","u","n","d",":"," ">> \o command
              \o <<"."," ","T","y","p","e"," ","'","h","e","l","p","'"," ","f","o","r"," ","a","v","a","i","l","a","b","l","e"," ","c","o","m","m","a","n","d","s",".">>, NoMutation)

\* executeCommand after its delay: the reply and the state mutation for
\* command, with hist and fs the history and isFullscreen captured by the
\* closure and t the clock
\* (mutant) the switch is on the command as typed
executeCommandCaseSensitive(command, hist, fs, t) ==
  LET cmd == trim(command)
  IN  CASE cmd = <<"h","e","l","p">>    -> Result(HelpText, NoMutation)
        [] cmd = <<"c","l","e","a","r">>   -> clearCase
        [] cmd = <<"h","i","s","t","o","r","y">> -> Result(historyReply(hist), NoMutation)
        [] cmd = <<"c","p","u">>     -> Result(CpuText, NoMutation)
        [] cmd = <<"m","e","m">>     -> Result(MemText, NoMutation)
        [] cmd = <<"p","s">>      -> Result(PsText, NoMutation)
        [] cmd = <<"d","i","s","k">>    -> Result(DiskText, NoMutation)
        [] cmd = <<"n","e","t","w","o","r","k">> -> Result(NetworkText, NoMutation)
        [] cmd = <<"s","y","s","i","n","f","o">> -> Result(SysinfoText, NoMutation)
        [] cmd = <<"u","p","t","i","m","e">>  -> Result(UptimeText, NoMutation)
        [] cmd = <<"d","a","t","e">>    -> Result(DateString(t), NoMutation)
        [] cmd = <<"c","l","o","n","e">>   -> Result(CloneText, NoMutation)
        [] OTHER             -> defaultCase(command, cmd, fs)

executeCommand(command, hist, fs, t) ==
  LET cmd == trim(toLowerCase(command))
  IN  CASE cmd = <<"h","e","l","p">>    -> Result(HelpText, NoMutation)
        [] cmd = <<"c","l","e","a","r">>   -> clearCase
        [] cmd = <<"h","i","s","t","o","r","y">> -> Result(historyReply(hist), NoMutation)
        [] cmd = <<"c","p","u">>     -> Result(CpuText, NoMutation)
        [] cmd = <<"m","e","m">>     -> Result(MemText, NoMutation)
        [] cmd = <<"p","s">>      -> Result(PsText, NoMutation)
        [] cmd = <<"d","i","s","k">>    -> Result(DiskText, NoMutation)
        [] cmd = <<"n","e","t","w","o","r","k">> -> Result(NetworkText, NoMutation)
        [] cmd = <<"s","y","s","i","n","f","o">> -> Result(SysinfoText, NoMutation)
        [] cmd = <<"u","p","t","i","m","e">>  -> Result(UptimeText, NoMutation)
        [] cmd = <<"d","a","t","e">>    -> Result(DateString(t), NoMutation)
        [] cmd = <<"c","l","o","n","e">>   -> Result(CloneText, NoMutation)
        [] OTHER             -> defaultCase(command, cmd, fs)

(***************************************************************************)
(* State                                                                   *)
(***************************************************************************)
VARIABLES
  maxLines,      \* the maxLines prop
  theme,         \* useState: theme
  prompt,        \* useState: prompt
  lines,         \* useState: lines
  currentInput,  \* useState: currentInput
  isTyping,      \* useState: isTyping
  typingText,    \* useState: typingText
  showCursor,    \* useState: showCursor
  isFullscreen,  \* useState: isFullscreen
  fontSize,      \* useState: fontSize
  history,       \* useState: history
  historyIndex,  \* useState: historyIndex
  mounted,       \* the component is mounted
  now,           \* Date.now()
  tasks,         \* the handleCommand invocations started so far
  timers,        \* the pending timers, in the order in which they fire
  updater,       \* when React evaluates a functional state update
  vocabulary,    \* what this session's user enters into the input field
  headerClicks   \* uses of the header controls so far

vars ==
  <<maxLines, theme, prompt, lines, currentInput, isTyping, typingText,
    showCursor, isFullscreen, fontSize, history, historyIndex, mounted, now,
    tasks, timers, updater, vocabulary, headerClicks>>

\* the platform and the user, as opposed to the component
user ==
  <<updater, vocabulary, headerClicks>>

\* the state the cursor-blink timer and the clock do not touch
session ==
  <<maxLines, theme, prompt, lines, currentInput, isTyping, typingText,
    isFullscreen, fontSize, history, historyIndex, mounted, tasks>>

\* the sessions of the model: each is the set of values its user types or
\* pastes into the input field
Vocabularies ==
  { {<<"c","l","e","a","r">>, <<" ","h","i","s","t","o","r","y"," ">>} }

ThemeVocabularies ==
  { {<<"t","h","e","m","e"," ","d","a","r","k">>, <<"t","h","e","m","e"," ","l","i","g","h","t">>}, {<<"t","h","e","m","e"," ","m","a","t","r","i","x">>, <<"t","h","e","m","e"," ","r","e","t","r","o">>} }

\* theme commands whose argument is not one of the four theme names: a name
\* every object inherits, a wrong case, an empty token from a double space
BadThemeVocabularies ==
  { {<<"t","h","e","m","e"," ","c","o","n","s","t","r","u","c","t","o","r">>}, {<<"t","h","e","m","e"," ","t","o","S","t","r","i","n","g">>}, {<<"t","h","e","m","e"," ","L","i","g","h","t">>},
    {<<"t","h","e","m","e"," "," ","d","a","r","k">>} }

\* fontsize commands with an integer argument, at and around the bounds
FontVocabularies ==
  { {<<"f","o","n","t","s","i","z","e"," ","9">>, <<"f","o","n","t","s","i","z","e"," ","1","0">>}, {<<"f","o","n","t","s","i","z","e"," ","2","4">>, <<"f","o","n","t","s","i","z","e"," ","2","5">>},
    {<<"f","o","n","t","s","i","z","e"," ","-","3">>, <<"F","O","N","T","S","I","Z","E"," ","1","0","0">>} }

\* fontsize commands whose argument is not an integer literal
BadFontVocabularies ==
  { {<<"f","o","n","t","s","i","z","e"," ","1","2","a","b","c">>}, {<<"f","o","n","t","s","i","z","e"," ","1","2",".","7">>}, {<<"f","o","n","t","s","i","z","e"," ","a","b","c">>},
    {<<"f","o","n","t","s","i","z","e"," "," ","1","2">>} }

\* inputs that match no command form
UnknownVocabularies ==
  { {<<"x","y","z","1","2","3">>, <<"E","c","h","o">>}, {<<" ","W","h","o","A","m","I"," ","x"," ">>, <<"t","h","e","m","e","s">>} }

\* a command and an input of spaces only
BlankVocabularies ==
  { {<<"e","c","h","o"," ","a">>, <<" "," ">>} }

\* a command with a reply and a command without one
ReplyVocabularies ==
  { {<<"e","c","h","o"," ","a","b">>, <<"c","l","e","a","r">>} }

\* commands that the help text lists
ListedVocabularies ==
  { {<<"w","h","o","a","m","i">>, <<"d","a","t","e">>}, {<<"h","e","l","p">>, <<"u","p","t","i","m","e">>} }

\* the fullscreen command, in two casings
FullscreenVocabularies ==
  { {<<"f","u","l","l","s","c","r","e","e","n">>, <<"F","u","l","l","S","c","r","e","e","n">>} }

\* beginnings of keywords, and inputs that begin no keyword
TabVocabularies ==
  { {<<"h">>, <<"c">>}, {<<"s">>, <<"x","y">>}, {<<"h","i">>, <<"H">>} }

\* a prompt command and a command submitted under the new prompt
PromptVocabularies ==
  { {<<"p","r","o","m","p","t"," ",">",">">>, <<"e","c","h","o"," ","a">>} }

\* prompt commands with nothing, or with spaces, after the keyword
BadPromptVocabularies ==
  { {<<"p","r","o","m","p","t"," ">>, <<"p","r","o","m","p","t"," "," ","x">>}, {<<"P","R","O","M","P","T">>, <<"P","r","o","m","p","t"," ","A"," ","b">>} }

\* commands with capitals in the keyword or in the argument
CasingVocabularies ==
  { {<<"E","C","H","O"," ","H","i">>, <<"T","h","e","m","e"," ","m","a","t","r","i","x">>}, {<<"T","H","E","M","E"," ","M","a","t","r","i","x">>, <<"P","R","O","M","P","T"," ","A","b">>},
    {<<"C","L","E","A","R">>, <<"H","i","S","t","o","r","y">>}, {<<"F","o","n","t","S","i","z","e"," ","1","2">>, <<"F","U","L","L","S","C","R","E","E","N">>} }

\* a short reply and a longer one
OverlapVocabularies ==
  { {<<"e","c","h","o"," ","a">>, <<"e","c","h","o"," ","a","b","c","d","e","f">>} }

\* echo commands
EchoVocabularies ==
  { {<<"e","c","h","o"," "," "," ","h","e","l","l","o"," "," "," ","w","o","r","l","d">>, <<"E","C","H","O"," ","H","i"," ">>}, {<<"E","c","h","o"," ","e","c","h","o">>, <<"e","c","h","o"," "," ","A"," ","b">>} }

\* themes the user picks in the header select
HeaderThemes ==
  {<<"m","a","t","r","i","x">>}

\* when React evaluates the function handed to setTypingText: at once (eager
\* state) or during the next render, after the tick callback has returned;
\* which of the two is up to the React build
UpdaterTimings ==
  {"eager", "render"}

(***************************************************************************)
(* Timers: a pending timer is [kind, task, due]; the queue is kept in      *)
(* firing order, earliest due first and oldest first among equals          *)
(***************************************************************************)
Timer(kind, task, due) ==
  [kind |-> kind, task |-> task, due |-> due]

\* setTimeout / setInterval: queue a timer behind those due no later
setTimer(q, tm) ==
  LET before == {i \in 1..Len(q) : q[i].due <= tm.due}
      k == Cardinality(before)
  IN  SubSeq(q, 1, k) \o <<tm>> \o SubSeq(q, k + 1, Len(q))

\* clearInterval(cursorIntervalRef.current)
clearCursorTimer(q) ==
  SelectSeq(q, LAMBDA tm : tm.kind # "cursor")

\* the timer whose callback runs next is due now
Due(kind) ==
  /\ Len(timers) > 0
  /\ timers[1].kind = kind
  /\ timers[1].due <= now

\* the state after the first render, for a user with one of the vocabularies
InitFor(vocabularies) ==
  /\ maxLines \in {SmallMaxLines}
  /\ theme = initialTheme
  /\ prompt = initialPrompt
  /\ now = StartTime
  /\ lines = InitialLines(StartTime)
  /\ currentInput = <<>>
  /\ isTyping = FALSE
  /\ typingText = <<>>
  /\ showCursor = TRUE
  /\ isFullscreen = FALSE
  /\ fontSize = DefaultFontSize
  /\ history = <<>>
  /\ historyIndex = NoHistoryIndex
  /\ mounted = TRUE
  /\ tasks = <<>>
  /\ timers = <<Timer("cursor", 0, StartTime + CursorBlinkMs)>>
  /\ updater \in UpdaterTimings
  /\ vocabulary \in vocabularies
  /\ headerClicks = 0

Init ==
  InitFor(Vocabularies)

InitTheme ==
  InitFor(ThemeVocabularies)

InitBadTheme ==
  InitFor(BadThemeVocabularies)

InitFont ==
  InitFor(FontVocabularies)

InitBadFont ==
  InitFor(BadFontVocabularies)

InitUnknown ==
  InitFor(UnknownVocabularies)

InitEcho ==
  InitFor(EchoVocabularies)

InitBlank ==
  InitFor(BlankVocabularies)

InitReply ==
  InitFor(ReplyVocabularies)

InitOverlap ==
  InitFor(OverlapVocabularies)

InitPrompt ==
  InitFor(PromptVocabularies)

InitCasing ==
  InitFor(CasingVocabularies)

InitBadPrompt ==
  InitFor(BadPromptVocabularies)

InitTab ==
  InitFor(TabVocabularies)

InitFullscreen ==
  InitFor(FullscreenVocabularies)

InitListed ==
  InitFor(ListedVocabularies)

(***************************************************************************)
(* The submission pipeline                                                 *)
(***************************************************************************)
\* (mutant) the input row is rendered during the typing phase too
InputRowRenderedAlways ==
  mounted

\* the input row, and with it the key handlers, exists only when !isTyping
InputRowRendered ==
  mounted /\ ~isTyping

\* a line as handleCommand builds it
Line(id, type, content) ==
  [id |-> toString(id), type |-> type, content |-> content, timestamp |-> now]

\* the id of the input line
inputLineId ==
  now

\* the id of the output line and of the error line
outputLineId ==
  now + 1

\* (mutant) the oldest lines are dropped beyond maxLines
appendLineEvicting(prev, line) ==
  LET all == Append(prev, line)
  IN  IF Len(all) > maxLines
        THEN SubSeq(all, Len(all) - maxLines + 1, Len(all))
        ELSE all

\* setLines(prev => [...prev, line])
appendLine(prev, line) ==
  Append(prev, line)

\* a handleCommand invocation waiting for executeCommand: the closure holds
\* the history and isFullscreen of the render that created the handler
NewTask(command) ==
  [command |-> command, history |-> history, isFullscreen |-> isFullscreen,
   pc |-> "delay", output |-> <<>>, index |-> 0]

\* (mutant) the command is put in front of the history
pushHistoryFront(prev, command) ==
  <<command>> \o prev

\* setHistory(prev => [...prev, command])
pushHistory(prev, command) ==
  Append(prev, command)

\* (mutant) no command is taken as blank
blankCommandNever(command) ==
  FALSE

\* the test of handleCommand's early return
blankCommand(command) ==
  ~Truthy(trim(command))

\* handleCommand up to the first await
handleCommand(command) ==
  IF blankCommand(command)
    THEN UNCHANGED <<lines, history, historyIndex, tasks, timers>>
    ELSE /\ lines' = appendLine(lines, Line(inputLineId, "input",
                                            prompt \o <<" ">> \o command))
         /\ history' = pushHistory(history, command)
         /\ historyIndex' = NoHistoryIndex
         /\ tasks' = Append(tasks, NewTask(command))
         /\ timers' = setTimer(timers, Timer("delay", Len(tasks) + 1,
                                             now + ProcessingDelayMs))

\* (mutant) Enter leaves the input field as it is
KeyEnterKeepsInput ==
  /\ InputRowRendered
  /\ currentInput' = currentInput
  /\ handleCommand(trim(currentInput))
  /\ UNCHANGED <<maxLines, theme, prompt, isTyping, typingText, showCursor,
                 isFullscreen, fontSize, mounted, now>>

\* handleKeyDown, e.key === 'Enter'
KeyEnter ==
  /\ InputRowRendered
  /\ currentInput' = <<>>
  /\ handleCommand(trim(currentInput))
  /\ UNCHANGED <<maxLines, theme, prompt, isTyping, typingText, showCursor,
                 isFullscreen, fontSize, mounted, now>>

\* the state setters of an unmounted component do nothing
applyMutation(m) ==
  /\ lines' = IF mounted /\ m.kind = "clear" THEN <<>> ELSE lines
  /\ theme' = IF mounted /\ m.kind = "theme" THEN m.arg ELSE theme
  /\ prompt' = IF mounted /\ m.kind = "prompt" THEN m.arg ELSE prompt
  /\ fontSize' = IF mounted /\ m.kind = "fontsize" THEN m.arg ELSE fontSize
  /\ isFullscreen' = IF mounted /\ m.kind = "fullscreen" THEN m.arg
                     ELSE isFullscreen

\* (mutant) executeCommand reads the history of the latest render
currentHistory(k) ==
  history

\* the closure values executeCommand reads for task k
closureHistory(k) ==
  tasks[k].history

closureFullscreen(k) ==
  tasks[k].isFullscreen

\* (mutant) the output line is appended before the reply is typed
DelayFireAppendsFirst ==
  /\ Due("delay")
  /\ LET k == timers[1].task
         r == executeCommand(tasks[k].command, closureHistory(k),
                             closureFullscreen(k), now)
     IN  /\ theme' = theme /\ prompt' = prompt /\ fontSize' = fontSize
         /\ isFullscreen' = isFullscreen
         /\ lines' = IF mounted /\ Truthy(r.reply)
                       THEN appendLine(lines, Line(outputLineId, "output",
                                                   r.reply))
                       ELSE lines
         /\ IF Truthy(r.reply)
              THEN /\ tasks' = [tasks EXCEPT ![k].pc = "typing",
                                             ![k].output = r.reply,
                                             ![k].index = 0]
                   /\ isTyping' = IF mounted THEN TRUE ELSE isTyping
                   /\ typingText' = IF mounted THEN <<>> ELSE typingText
                   /\ timers' = setTimer(Tail(timers),
                                   Timer("type", k, now + TypeSpeedMs))
              ELSE /\ tasks' = [tasks EXCEPT ![k].pc = "done"]
                   /\ timers' = Tail(timers)
                   /\ UNCHANGED <<isTyping, typingText>>
  /\ UNCHANGED <<maxLines, currentInput, showCursor, history, historyIndex,
                 mounted, now>>

\* the 300 ms timeout of executeCommand fires: the command is interpreted,
\* its mutation applied, and handleCommand goes on to typeText when the
\* reply is non-empty
DelayFire ==
  /\ Due("delay")
  /\ LET k == timers[1].task
         r == executeCommand(tasks[k].command, closureHistory(k),
                             closureFullscreen(k), now)
     IN  /\ applyMutation(r.mutation)
         /\ IF Truthy(r.reply)
              THEN /\ tasks' = [tasks EXCEPT ![k].pc = "typing",
                                             ![k].output = r.reply,
                                             ![k].index = 0]
                   /\ isTyping' = IF mounted THEN TRUE ELSE isTyping
                   /\ typingText' = IF mounted THEN <<>> ELSE typingText
                   /\ timers' = setTimer(Tail(timers),
                                   Timer("type", k, now + TypeSpeedMs))
              ELSE /\ tasks' = [tasks EXCEPT ![k].pc = "done"]
                   /\ timers' = Tail(timers)
                   /\ UNCHANGED <<isTyping, typingText>>
  /\ UNCHANGED <<maxLines, currentInput, showCursor, history, historyIndex,
                 mounted, now>>

\* the character a reveal tick appends to typingText
revealed(t) ==
  IF updater = "eager" THEN charAt(t.output, t.index)
  ELSE charAt(t.output, t.index + 1)

\* one run of the typeInterval callback of typeText
TypeTick ==
  /\ Due("type")
  /\ LET k == timers[1].task
         t == tasks[k]
     IN  IF t.index < Len(t.output)
           THEN /\ typingText' = IF mounted THEN typingText \o revealed(t)
                                 ELSE typingText
                /\ tasks' = [tasks EXCEPT ![k].index = t.index + 1]
                /\ timers' = setTimer(Tail(timers),
                                Timer("type", k, now + TypeSpeedMs))
           ELSE /\ tasks' = [tasks EXCEPT ![k].pc = "pause"]
                /\ timers' = setTimer(Tail(timers),
                                Timer("pause", k, now + TypePauseMs))
                /\ UNCHANGED typingText
  /\ UNCHANGED <<maxLines, theme, prompt, lines, currentInput, isTyping,
                 showCursor, isFullscreen, fontSize, history, historyIndex,
                 mounted, now>>

\* (mutant) the output line is made of the typing buffer
PauseFireCommitsBuffer ==
  /\ Due("pause")
  /\ LET k == timers[1].task
     IN  /\ tasks' = [tasks EXCEPT ![k].pc = "done"]
         /\ timers' = Tail(timers)
         /\ isTyping' = IF mounted THEN FALSE ELSE isTyping
         /\ typingText' = IF mounted THEN <<>> ELSE typingText
         /\ lines' = IF mounted
                       THEN appendLine(lines, Line(outputLineId, "output",
                                                   typingText))
                       ELSE lines
  /\ UNCHANGED <<maxLines, theme, prompt, currentInput, showCursor,
                 isFullscreen, fontSize, history, historyIndex, mounted, now>>

\* the 200 ms timeout of typeText fires; the promise resolves and
\* handleCommand appends the output line
PauseFire ==
  /\ Due("pause")
  /\ LET k == timers[1].task
     IN  /\ tasks' = [tasks EXCEPT ![k].pc = "done"]
         /\ timers' = Tail(timers)
         /\ isTyping' = IF mounted THEN FALSE ELSE isTyping
         /\ typingText' = IF mounted THEN <<>> ELSE typingText
         /\ lines' = IF mounted
                       THEN appendLine(lines, Line(outputLineId, "output",
                                                   tasks[k].output))
                       ELSE lines
  /\ UNCHANGED <<maxLines, theme, prompt, currentInput, showCursor,
                 isFullscreen, fontSize, history, historyIndex, mounted, now>>

(***************************************************************************)
(* The other handlers                                                      *)
(***************************************************************************)
\* the cursor-blink interval
CursorBlink ==
  /\ Due("cursor")
  /\ showCursor' = IF mounted THEN ~showCursor ELSE showCursor
  /\ timers' = setTimer(Tail(timers), Timer("cursor", 0, now + CursorBlinkMs))
  /\ UNCHANGED <<session, now>>

\* onChange of the input field
Change ==
  /\ InputRowRendered
  /\ \E v \in vocabulary :
       /\ v # currentInput
       /\ currentInput' = v
  /\ UNCHANGED <<maxLines, theme, prompt, lines, isTyping, typingText,
                 showCursor, isFullscreen, fontSize, history, historyIndex,
                 mounted, now, tasks, timers>>

\* the history index and the input field, which the arrow keys set
Cursor(index, input) ==
  [index |-> index, input |-> input]

\* (mutant) the index is not clamped at the oldest entry
arrowUpIndexUnclamped(index) ==
  IF index = NoHistoryIndex THEN Len(history) - 1 ELSE index - 1

\* the new index of ArrowUp
arrowUpIndex(index) ==
  IF index = NoHistoryIndex THEN Len(history) - 1
  ELSE IF index - 1 > 0 THEN index - 1 ELSE 0

\* the ArrowUp branch of handleKeyDown on an index and an input field
arrowUp(c) ==
  IF Len(history) > 0
    THEN Cursor(arrowUpIndex(c.index), at(history, arrowUpIndex(c.index)))
    ELSE c

\* handleKeyDown, e.key === 'ArrowUp'
KeyArrowUp ==
  /\ InputRowRendered
  /\ historyIndex' = arrowUp(Cursor(historyIndex, currentInput)).index
  /\ currentInput' = arrowUp(Cursor(historyIndex, currentInput)).input
  /\ UNCHANGED <<maxLines, theme, prompt, lines, isTyping, typingText,
                 showCursor, isFullscreen, fontSize, history, mounted, now,
                 tasks, timers>>

\* (mutant) the end of the history is tested with > instead of >=
arrowDownLeavesLate(newIndex) ==
  newIndex > Len(history)

\* ArrowDown leaves the history when the new index is past its end
arrowDownLeaves(newIndex) ==
  newIndex >= Len(history)

\* (mutant) leaving the history keeps the input field
arrowDownKeepsInput(c) ==
  IF c.index >= 0
    THEN LET newIndex == c.index + 1
         IN  IF arrowDownLeaves(newIndex)
               THEN Cursor(NoHistoryIndex, c.input)
               ELSE Cursor(newIndex, at(history, newIndex))
    ELSE c

\* the ArrowDown branch of handleKeyDown on an index and an input field
arrowDown(c) ==
  IF c.index >= 0
    THEN LET newIndex == c.index + 1
         IN  IF arrowDownLeaves(newIndex)
               THEN Cursor(NoHistoryIndex, <<>>)
               ELSE Cursor(newIndex, at(history, newIndex))
    ELSE c

\* (mutant) ArrowDown also acts when the index is none
KeyArrowDownUnguarded ==
  /\ InputRowRendered
  /\ historyIndex' = arrowDown(Cursor(IF historyIndex >= 0 THEN historyIndex
                                      ELSE 0, currentInput)).index
  /\ currentInput' = arrowDown(Cursor(IF historyIndex >= 0 THEN historyIndex
                                      ELSE 0, currentInput)).input
  /\ UNCHANGED <<maxLines, theme, prompt, lines, isTyping, typingText,
                 showCursor, isFullscreen, fontSize, history, mounted, now,
                 tasks, timers>>

\* handleKeyDown, e.key === 'ArrowDown'
KeyArrowDown ==
  /\ InputRowRendered
  /\ historyIndex' = arrowDown(Cursor(historyIndex, currentInput)).index
  /\ currentInput' = arrowDown(Cursor(historyIndex, currentInput)).input
  /\ UNCHANGED <<maxLines, theme, prompt, lines, isTyping, typingText,
                 showCursor, isFullscreen, fontSize, history, mounted, now,
                 tasks, timers>>

\* (mutant) a keyword matches when the input occurs anywhere in it
tabMatchesAnywhere(input) ==
  SelectSeq(completions,
            LAMBDA c : \E i \in 0..(Len(c) - Len(input)) :
                         SubSeq(c, i + 1, i + Len(input)) = input)

\* completions.find(cmd => cmd.startsWith(input)): the matches, in order
tabMatches(input) ==
  SelectSeq(completions, LAMBDA c : startsWith(c, input))

\* handleKeyDown, e.key === 'Tab'
KeyTab ==
  /\ InputRowRendered
  /\ currentInput' = IF Len(tabMatches(currentInput)) > 0
                       THEN tabMatches(currentInput)[1]
                       ELSE currentInput
  /\ UNCHANGED <<maxLines, theme, prompt, lines, isTyping, typingText,
                 showCursor, isFullscreen, fontSize, history, historyIndex,
                 mounted, now, tasks, timers>>

\* onChange of the theme select in the header
SelectTheme ==
  /\ mounted
  /\ \E t \in HeaderThemes :
       /\ t # theme
       /\ theme' = t
  /\ UNCHANGED <<maxLines, prompt, lines, currentInput, isTyping, typingText,
                 showCursor, isFullscreen, fontSize, history, historyIndex,
                 mounted, now, tasks, timers>>

\* onClick of the fullscreen button in the header
ClickFullscreen ==
  /\ mounted
  /\ isFullscreen' = ~isFullscreen
  /\ UNCHANGED <<maxLines, theme, prompt, lines, currentInput, isTyping,
                 typingText, showCursor, fontSize, history, historyIndex,
                 mounted, now, tasks, timers>>

\* the component is torn down: the cleanup of the cursor effect runs and
\* React drops the state of the component, for which the model keeps the
\* empty values from then on; what the closures of the tasks hold stays
Unmount ==
  /\ mounted
  /\ mounted' = FALSE
  /\ timers' = clearCursorTimer(timers)
  /\ theme' = initialTheme
  /\ prompt' = <<>>
  /\ lines' = <<>>
  /\ currentInput' = <<>>
  /\ isTyping' = FALSE
  /\ typingText' = <<>>
  /\ showCursor' = TRUE
  /\ isFullscreen' = FALSE
  /\ fontSize' = DefaultFontSize
  /\ history' = <<>>
  /\ historyIndex' = NoHistoryIndex
  /\ UNCHANGED <<maxLines, now, tasks>>

\* a submission is in flight
InFlight ==
  \E k \in 1..Len(tasks) : tasks[k].pc # "done"

\* time passes while a submission is in flight: up to the next timer, or by
\* the user's pause if that is sooner; a timer's callback runs when it is due
Elapse ==
  /\ InFlight
  /\ \E d \in {UserGap} \cup {timers[i].due - now : i \in 1..Len(timers)} :
       /\ d > 0
       /\ \A i \in 1..Len(timers) : now + d <= timers[i].due
       /\ now' = now + d
  /\ UNCHANGED <<session, showCursor, timers>>

(***************************************************************************)
(* The user and the bounds on what the user does                           *)
(***************************************************************************)
\* Enter, at most MaxSubmit times on an input that is not blank
PressEnter ==
  /\ Truthy(trim(currentInput)) => Len(history) < MaxSubmit
  /\ KeyEnter
  /\ UNCHANGED user

\* Tab, on an input field that is not empty
PressTab ==
  /\ currentInput # <<>>
  /\ KeyTab
  /\ UNCHANGED user

\* the header controls, used at most MaxHeaderClicks times
UseHeader ==
  /\ headerClicks < MaxHeaderClicks
  /\ headerClicks' = headerClicks + 1
  /\ SelectTheme \/ ClickFullscreen
  /\ UNCHANGED <<updater, vocabulary>>

Next ==
  \/ PressEnter
  \/ DelayFire /\ UNCHANGED user
  \/ TypeTick /\ UNCHANGED user
  \/ PauseFire /\ UNCHANGED user
  \/ CursorBlink /\ UNCHANGED user
  \/ Change /\ UNCHANGED user
  \/ KeyArrowUp /\ UNCHANGED user
  \/ KeyArrowDown /\ UNCHANGED user
  \/ PressTab
  \/ UseHeader
  \/ Unmount /\ UNCHANGED user
  \/ Elapse /\ UNCHANGED user

Spec ==
  Init /\ [][Next]_vars

\* sessions whose user enters theme commands
SpecTheme ==
  InitTheme /\ [][Next]_vars

\* a user who enters and submits a command only when no submission is in
\* flight, and uses nothing but the input field and the Enter key
SerialChange ==
  /\ ~InFlight
  /\ Change
  /\ UNCHANGED user

SerialEnter ==
  /\ ~InFlight
  /\ PressEnter

NextSerial ==
  \/ SerialChange
  \/ SerialEnter
  \/ DelayFire /\ UNCHANGED user
  \/ TypeTick /\ UNCHANGED user
  \/ PauseFire /\ UNCHANGED user
  \/ CursorBlink /\ UNCHANGED user
  \/ Elapse /\ UNCHANGED user

\* sessions whose user enters theme commands with an unknown theme name
SpecBadTheme ==
  InitBadTheme /\ [][NextSerial]_vars

\* sessions whose user enters fontsize commands with an integer argument
SpecFont ==
  InitFont /\ [][NextSerial]_vars

\* sessions whose user enters fontsize commands with another argument
SpecBadFont ==
  InitBadFont /\ [][NextSerial]_vars

\* sessions whose user enters inputs that are no command
SpecUnknown ==
  InitUnknown /\ [][NextSerial]_vars

\* sessions whose user enters echo commands
SpecEcho ==
  InitEcho /\ [][NextSerial]_vars

\* sessions whose user types commands with capitals
SpecCasing ==
  InitCasing /\ [][NextSerial]_vars

\* sessions whose user enters prompt commands with an empty remainder
SpecBadPrompt ==
  InitBadPrompt /\ [][NextSerial]_vars

\* Tab, between submissions and also on an empty input field
SerialTab ==
  /\ ~InFlight
  /\ KeyTab
  /\ UNCHANGED user

\* a user who completes with Tab and submits one command at a time
NextTab ==
  \/ SerialTab
  \/ SerialChange
  \/ SerialEnter
  \/ DelayFire /\ UNCHANGED user
  \/ TypeTick /\ UNCHANGED user
  \/ PauseFire /\ UNCHANGED user
  \/ CursorBlink /\ UNCHANGED user
  \/ Elapse /\ UNCHANGED user

\* sessions whose user types beginnings of commands and completes them
SpecTab ==
  InitTab /\ [][NextTab]_vars

\* sessions whose user enters commands of the help text
SpecListed ==
  InitListed /\ [][NextSerial]_vars

\* sessions whose user also presses Enter on spaces
SpecBlank ==
  InitBlank /\ [][Next]_vars

\* sessions whose user changes the prompt
SpecPrompt ==
  InitPrompt /\ [][Next]_vars

\* sessions whose user enters the fullscreen command and uses the header
SpecFullscreen ==
  InitFullscreen /\ [][Next]_vars

\* one step of the event loop: the callback of the timer that is due runs,
\* or time passes
EventLoop ==
  /\ DelayFire \/ TypeTick \/ PauseFire \/ CursorBlink \/ Elapse
  /\ UNCHANGED user

\* the event loop keeps running: time passes and a timer that is due fires;
\* nothing in the component cancels a delay, a typing interval or a pause
TimersFire ==
  WF_vars(EventLoop)

\* a user who types and submits at any time, also while a submission is in
\* flight, and may close the terminal
NextSubmit ==
  \/ PressEnter
  \/ Change /\ UNCHANGED user
  \/ Unmount /\ UNCHANGED user
  \/ EventLoop

\* sessions under a fair event loop
SpecFair ==
  InitReply /\ [][NextSubmit]_vars /\ TimersFire

\* sessions whose user submits a second command while the first is in flight
SpecOverlap ==
  InitOverlap /\ [][NextSubmit]_vars

(***************************************************************************)
(* Properties                                                              *)
(***************************************************************************)
\* the submissions that have begun and not yet finished
InFlightTasks ==
  {k \in 1..Len(tasks) : tasks[k].pc # "done"}

\* C1: at most one command submission is in flight at any time, the
\* simulated-latency stage included
C1_OneInFlight ==
  Cardinality(InFlightTasks) <= 1

InputCount(ls) ==
  Cardinality({i \in 1..Len(ls) : ls[i].type = "input"})

DelayTimers(q) ==
  Cardinality({i \in 1..Len(q) : q[i].kind = "delay"})

\* C2: while isTyping is true no step of the mounted component appends an
\* input line, adds a history entry or schedules a reply: an Enter press
\* cannot reach the key handler
C2_NoSubmitWhileTyping ==
  [][(isTyping /\ mounted') =>
       /\ history' = history
       /\ Len(tasks') = Len(tasks)
       /\ InputCount(lines') <= InputCount(lines)
       /\ DelayTimers(timers') <= DelayTimers(timers)]_vars

\* C2 witness: the typing phase is on while the input field holds a command
\* that an Enter press would submit
C2_Witness ==
  /\ mounted
  /\ isTyping
  /\ Truthy(trim(currentInput))
  /\ Len(history) < MaxSubmit

\* C3: the retained line count never exceeds maxLines
C3_LinesWithinMaxLines ==
  Len(lines) <= maxLines

\* C4: historyIndex is the sentinel -1 or a valid index into history
C4_HistoryIndexValid ==
  \/ historyIndex = NoHistoryIndex
  \/ historyIndex >= 0 /\ historyIndex < Len(history)

\* C4 witness: the cursor was moved to the oldest of two entries and back to
\* the newest
C4_Witness ==
  /\ Len(history) = 2
  /\ historyIndex = 1
  /\ currentInput = history[2]
  /\ \E k \in 1..Len(tasks) : tasks[k].pc = "done"

IdNumber(line) ==
  DigitsValue(line.id)

\* C5: the ids of the lines are pairwise different and increase in the
\* order in which the lines were appended
C5_IdsIncrease ==
  \A i, j \in 1..Len(lines) :
    i < j => IdNumber(lines[i]) < IdNumber(lines[j])

\* C6: once the component is torn down no timer it started is pending
C6_TimersReleased ==
  ~mounted => timers = <<>>

\* C7: an Enter press on an input that is not blank appends the trimmed
\* input as the last entry of history, keeps the earlier entries and sets
\* historyIndex to -1
C7_SubmitAppendsHistory ==
  [][(KeyEnter /\ Truthy(trim(currentInput))) =>
       /\ history' = Append(history, trim(currentInput))
       /\ historyIndex' = NoHistoryIndex]_vars

\* C7 witness: a second command was submitted after the cursor had been
\* moved into the history
C7_Witness ==
  /\ mounted
  /\ Len(history) = 2
  /\ history[1] # history[2]
  /\ historyIndex = NoHistoryIndex
  /\ Len(tasks) = 2
  /\ tasks[2].pc = "delay"

IsHistoryCommand(command) ==
  trim(toLowerCase(command)) = <<"h","i","s","t","o","r","y">>

\* the commands submitted before the k-th submission
PriorCommands(k) ==
  [i \in 1..(k - 1) |-> tasks[i].command]

\* the listing "n. cmd", "n+1. cmd", ... one per line
RECURSIVE Numbered(_, _)
Numbered(cmds, n) ==
  IF Len(cmds) = 0 THEN <<>>
  ELSE toString(n) \o <<"."," ">> \o Head(cmds)
       \o (IF Len(cmds) = 1 THEN <<>>
           ELSE <<"\n">> \o Numbered(Tail(cmds), n + 1))

IsClearCommand(command) ==
  trim(toLowerCase(command)) = <<"c","l","e","a","r">>

\* the clear command is the one whose delay is over
ClearDue ==
  /\ Due("delay")
  /\ IsClearCommand(tasks[timers[1].task].command)

\* C9: when clear is interpreted the line sequence becomes empty, no typing
\* phase starts, no timer is left for it and history is unchanged; its
\* submission appended it to history; a clear never reaches the typing
\* phase, so that no output line is appended for it
C9_Clear ==
  [][/\ (mounted /\ ClearDue /\ DelayFire) =>
          /\ lines' = <<>>
          /\ tasks'[timers[1].task].pc = "done"
          /\ \A i \in 1..Len(timers') : timers'[i].task # timers[1].task
          /\ UNCHANGED <<isTyping, typingText, history>>
     /\ (KeyEnter /\ IsClearCommand(currentInput)) =>
          history' = Append(history, trim(currentInput))
     /\ \A k \in 1..Len(tasks') :
          IsClearCommand(tasks'[k].command) =>
            tasks'[k].pc \in {"delay", "done"} /\ tasks'[k].output = <<>>]_vars

\* C9 witness: a clear was interpreted while the component is mounted and
\* left the line sequence empty, with clear in history
C9_Witness ==
  /\ mounted
  /\ lines = <<>>
  /\ ~isTyping
  /\ \E k \in 1..Len(tasks) :
       /\ IsClearCommand(tasks[k].command)
       /\ tasks[k].pc = "done"
       /\ history[k] = tasks[k].command

\* the theme command whose delay is over names the valid theme T
ThemeDue(T) ==
  /\ Due("delay")
  /\ tasks[timers[1].task].command = <<"t","h","e","m","e"," ">> \o T

\* C10: interpreting "theme T" for a valid theme T sets theme to T and
\* leaves prompt, font size, fullscreen and history unchanged
C10_ThemeCommand ==
  [][\A T \in ThemeNames :
       (mounted /\ ThemeDue(T) /\ DelayFire) =>
         /\ theme' = T
         /\ UNCHANGED <<prompt, fontSize, isFullscreen, history>>]_vars

\* C10 witness: a theme command changed the theme and its confirmation was
\* appended
C10_Witness ==
  /\ mounted
  /\ theme = <<"r","e","t","r","o">>
  /\ \E k \in 1..Len(tasks) :
       /\ tasks[k].command = <<"t","h","e","m","e"," ","r","e","t","r","o">>
       /\ tasks[k].pc = "done"
       /\ lines[Len(lines)].content = <<"T","h","e","m","e"," ","c","h","a","n","g","e","d"," ","t","o",":"," ","r","e","t","r","o">>

\* C11: the theme is always one of dark, light, matrix, retro: a theme
\* command with any other argument leaves the theme unchanged
C11_ThemeIsValid ==
  mounted => theme \in ThemeNames

\* the integers tried as the argument of fontsize
FontSizeArguments ==
  (0 - 5)..30 \cup {100}

\* the fontsize command whose delay is over has the integer n as argument
FontDue(n) ==
  /\ Due("delay")
  /\ toLowerCase(tasks[timers[1].task].command) = <<"f","o","n","t","s","i","z","e"," ">> \o toString(n)

\* C12: the font size stays in [10,24]; "fontsize n" sets it to n and
\* confirms exactly when 10 <= n <= 24, and otherwise leaves it unchanged
\* and replies with the range error
C12_FontSizeRange ==
  [][/\ fontSize' >= 10 /\ fontSize' <= 24
     /\ \A n \in FontSizeArguments :
          (mounted /\ FontDue(n) /\ DelayFire) =>
            IF n >= 10 /\ n <= 24
              THEN /\ fontSize' = n
                   /\ tasks'[timers[1].task].output
                        = <<"F","o","n","t"," ","s","i","z","e"," ","c","h","a","n","g","e","d"," ","t","o",":"," ">> \o toString(n) \o <<"p","x">>
              ELSE /\ fontSize' = fontSize
                   /\ tasks'[timers[1].task].output
                        = <<"F","o","n","t"," ","s","i","z","e"," ","m","u","s","t"," ","b","e"," ","b","e","t","w","e","e","n"," ","1","0","-","2","4","p","x">>]_vars

\* C12 witness: fontsize 24 was accepted and a later fontsize 25 was
\* rejected with the range error
C12_Witness ==
  /\ mounted
  /\ fontSize = 24
  /\ Len(tasks) = 2
  /\ tasks[1].command = <<"f","o","n","t","s","i","z","e"," ","2","4">>
  /\ tasks[2].command = <<"f","o","n","t","s","i","z","e"," ","2","5">>
  /\ tasks[2].pc = "done"
  /\ lines[Len(lines)].content = <<"F","o","n","t"," ","s","i","z","e"," ","m","u","s","t"," ","b","e"," ","b","e","t","w","e","e","n"," ","1","0","-","2","4","p","x">>

NonIntegerFontCommands ==
  {<<"f","o","n","t","s","i","z","e"," ","1","2","a","b","c">>, <<"f","o","n","t","s","i","z","e"," ","1","2",".","7">>, <<"f","o","n","t","s","i","z","e"," ","a","b","c">>, <<"f","o","n","t","s","i","z","e"," "," ","1","2">>}

\* C13: a fontsize command whose argument is not an integer literal leaves
\* the font size unchanged and gets the range-error reply
C13_NonIntegerRejected ==
  /\ mounted => fontSize = 14
  /\ \A k \in 1..Len(tasks) :
       (tasks[k].command \in NonIntegerFontCommands /\ tasks[k].pc # "delay")
         => tasks[k].output = <<"F","o","n","t"," ","s","i","z","e"," ","m","u","s","t"," ","b","e"," ","b","e","t","w","e","e","n"," ","1","0","-","2","4","p","x">>

\* the command forms the interpreter is specified to recognize
RecognizedForm(command) ==
  LET c == toLowerCase(command)
  IN  \/ c \in {<<"h","e","l","p">>, <<"c","l","e","a","r">>, <<"h","i","s","t","o","r","y">>, <<"d","a","t","e">>, <<"f","u","l","l","s","c","r","e","e","n">>,
                <<"c","p","u">>, <<"m","e","m">>, <<"p","s">>, <<"d","i","s","k">>, <<"n","e","t","w","o","r","k">>, <<"s","y","s","i","n","f","o">>,
                <<"u","p","t","i","m","e">>, <<"c","l","o","n","e">>}
      \/ \E kw \in {<<"e","c","h","o"," ">>, <<"t","h","e","m","e"," ">>, <<"p","r","o","m","p","t"," ">>, <<"f","o","n","t","s","i","z","e"," ">>} :
           startsWith(c, kw)

\* C14: an input that matches no command form gets the reply
\* "Command not found: <input>. Type 'help' for available commands." with
\* the input in its original casing, and leaves theme, prompt, font size and
\* fullscreen unchanged
C14_UnknownCommand ==
  [][/\ \A k \in 1..Len(tasks') :
          (~RecognizedForm(tasks'[k].command) /\ tasks'[k].pc # "delay") =>
            /\ tasks'[k].output
                 = <<"C","o","m","m","a","n","d"," ","n","o","t"," ","f","o","u","n","d",":"," ">> \o tasks'[k].command
                   \o <<"."," ","T","y","p","e"," ","'","h","e","l","p","'"," ","f","o","r"," ","a","v","a","i","l","a","b","l","e"," ","c","o","m","m","a","n","d","s",".">>
            /\ tasks'[k].command = <<"x","y","z","1","2","3">> =>
                 tasks'[k].output = <<"C","o","m","m","a","n","d"," ","n","o","t"," ","f","o","u","n","d",":"," ","x","y","z","1","2","3","."," ","T","y","p","e"," ","'","h","e","l","p","'"," ","f","o","r"," ","a","v","a","i","l","a","b","l","e"," ","c","o","m","m","a","n","d","s",".">>
            /\ tasks'[k].command = <<"W","h","o","A","m","I"," ","x">> =>
                 tasks'[k].output = <<"C","o","m","m","a","n","d"," ","n","o","t"," ","f","o","u","n","d",":"," ","W","h","o","A","m","I"," ","x","."," ","T","y","p","e"," ","'","h","e","l","p","'"," ","f","o","r"," ","a","v","a","i","l","a","b","l","e"," ","c","o","m","m","a","n","d","s",".">>
     /\ (/\ mounted
         /\ DelayFire
         /\ ~RecognizedForm(tasks[timers[1].task].command)) =>
          UNCHANGED <<theme, prompt, fontSize, isFullscreen>>]_vars

\* C14 witness: the reply to Echo, which is no command without an argument,
\* was appended with the original casing
C14_Witness ==
  /\ mounted
  /\ theme = initialTheme /\ prompt = initialPrompt
  /\ fontSize = 14 /\ ~isFullscreen
  /\ \E k \in 1..Len(tasks) :
       /\ tasks[k].command = <<"E","c","h","o">>
       /\ tasks[k].pc = "done"
       /\ lines[Len(lines)].content
            = <<"C","o","m","m","a","n","d"," ","n","o","t"," ","f","o","u","n","d",":"," ","E","c","h","o","."," ","T","y","p","e"," ","'","h","e","l","p","'"," ","f","o","r"," ","a","v","a","i","l","a","b","l","e"," ","c","o","m","m","a","n","d","s",".">>

\* what follows the first space of a string
AfterFirstSpace(str) ==
  LET spaces == {i \in 1..Len(str) : str[i] = " "}
      first == CHOOSE i \in spaces : \A j \in spaces : i <= j
  IN  [i \in 1..(Len(str) - first) |-> str[first + i]]

IsEchoCommand(command) ==
  /\ Len(command) > 5
  /\ toLowerCase(SubSeq(command, 1, 4)) = <<"e","c","h","o">>
  /\ command[5] = " "

\* C15: the reply to a submitted "echo <text>" is what follows the first
\* space of the submitted command, spacing and casing untouched, for any
\* casing of the keyword
C15_Echo ==
  \A k \in 1..Len(tasks) :
    (IsEchoCommand(tasks[k].command) /\ tasks[k].pc # "delay") =>
      /\ tasks[k].output = AfterFirstSpace(tasks[k].command)
      /\ tasks[k].command = <<"e","c","h","o"," "," "," ","h","e","l","l","o"," "," "," ","w","o","r","l","d">> =>
           tasks[k].output = <<" "," ","h","e","l","l","o"," "," "," ","w","o","r","l","d">>
      /\ tasks[k].command = <<"E","C","H","O"," ","H","i">> => tasks[k].output = <<"H","i">>
      /\ tasks[k].command = <<"e","c","h","o"," "," ","A"," ","b">> => tasks[k].output = <<" ","A"," ","b">>

\* C15 witness: the reply to "echo   hello   world" was appended, and then
\* the reply to an upper-case ECHO
C15_Witness ==
  /\ mounted
  /\ Len(tasks) = 2
  /\ tasks[1].command = <<"e","c","h","o"," "," "," ","h","e","l","l","o"," "," "," ","w","o","r","l","d">>
  /\ tasks[2].command = <<"E","C","H","O"," ","H","i">>
  /\ tasks[2].pc = "done"
  /\ lines[Len(lines) - 2].content = <<" "," ","h","e","l","l","o"," "," "," ","w","o","r","l","d">>
  /\ lines[Len(lines)].content = <<"H","i">>

\* C16: Enter on an empty input or on white space only appends no line, adds
\* no history entry, starts no delay timer and no typing phase, and leaves
\* theme, prompt, font size, fullscreen and the history index as they were
C16_BlankEnterNoOp ==
  [][(KeyEnter /\ \A i \in 1..Len(currentInput) : currentInput[i] \in WhiteSpace)
       => UNCHANGED <<lines, history, tasks, timers, isTyping, typingText,
                      theme, prompt, fontSize, isFullscreen, historyIndex>>]_vars

\* C16 witness: Enter was pressed on spaces while the history index pointed
\* at an entry (the arrow keys leave the input non-blank, and an accepted
\* command resets the index)
C16_Witness ==
  /\ mounted
  /\ currentInput = <<>>
  /\ historyIndex >= 0
  /\ Len(history) > 0

RECURSIVE arrowUps(_, _)
\* ArrowUp pressed n times
arrowUps(c, n) ==
  IF n = 0 THEN c ELSE arrowUps(arrowUp(c), n - 1)

RECURSIVE arrowDowns(_, _)
\* ArrowDown pressed n times
arrowDowns(c, n) ==
  IF n = 0 THEN c ELSE arrowDowns(arrowDown(c), n - 1)

\* C17 as stated: with the history index at none, N = Len(history) presses of
\* ArrowUp and then N of ArrowDown end at none and an empty input field, for
\* every N >= 0 and every input
C17_UpDownAnyLength ==
  (InputRowRendered /\ historyIndex = NoHistoryIndex) =>
    LET N == Len(history)
    IN  arrowDowns(arrowUps(Cursor(historyIndex, currentInput), N), N)
          = Cursor(NoHistoryIndex, <<>>)

\* C17 amended: the same for every N >= 1; and from an index the ArrowUp
\* presses have reached, the ArrowDown presses that remain end at none and an
\* empty input field
C17_UpDownRoundTrip ==
  LET N == Len(history)
  IN  /\ (InputRowRendered /\ historyIndex = NoHistoryIndex /\ N >= 1) =>
           /\ arrowUps(Cursor(historyIndex, currentInput), N).index = 0
           /\ arrowDowns(arrowUps(Cursor(historyIndex, currentInput), N), N)
                = Cursor(NoHistoryIndex, <<>>)
      /\ (InputRowRendered /\ historyIndex >= 0) =>
           arrowDowns(Cursor(historyIndex, currentInput), N - historyIndex)
             = Cursor(NoHistoryIndex, <<>>)

\* C17 witness: ArrowUp was pressed up to the oldest of two entries
C17_Witness ==
  /\ InputRowRendered
  /\ Len(history) = 2
  /\ historyIndex = 0
  /\ currentInput = history[1]

\* the submissions that complete in this step
Completing ==
  {k \in 1..Len(tasks) : tasks[k].pc # "done" /\ tasks'[k].pc = "done"}

\* the output lines of a sequence of lines
OutputLines(ls) ==
  SelectSeq(ls, LAMBDA l : l.type = "output")

\* C18: with timers firing when due, every submission completes and the
\* session is idle again (isTyping false, input row rendered) while it is
\* mounted; the step that completes a submission with a non-empty reply
\* appends one output line, the whole reply, and no other step appends an
\* output line
C18_SubmissionCompletes ==
  /\ \A k \in 1..(MaxSubmit + 1) :
       (Len(tasks) >= k) ~> (Len(tasks) >= k /\ tasks[k].pc = "done")
  /\ InFlight ~> (~InFlight /\ ~isTyping /\ (mounted => InputRowRendered))
  /\ [][/\ \A k \in Completing :
            (mounted /\ Truthy(tasks[k].output)) =>
              /\ Len(lines') = Len(lines) + 1
              /\ lines'[Len(lines')].type = "output"
              /\ lines'[Len(lines')].content = tasks[k].output
              /\ SubSeq(lines', 1, Len(lines)) = lines
        /\ (Len(OutputLines(lines')) > Len(OutputLines(lines))) =>
              \E k \in Completing : Truthy(tasks[k].output)
        /\ Cardinality(Completing) <= 1]_vars

\* C18 witness: both submissions are complete, the session is idle, and the
\* reply to echo is the last line
C18_Witness ==
  /\ mounted
  /\ InputRowRendered
  /\ Len(tasks) = 2
  /\ ~InFlight
  /\ tasks[2].command = <<"e","c","h","o"," ","a","b">>
  /\ lines[Len(lines)].type = "output"
  /\ lines[Len(lines)].content = <<"a","b">>

\* the command names of the help text: the word after the bullet of every
\* line but the first
ListedCommands ==
  LET helpLines == split(HelpText, "\n")
  IN  {at(split(helpLines[i], " "), 1) : i \in 2..Len(helpLines)}

\* C19: a submitted command that the help text lists never gets the
\* "Command not found" reply
C19_ListedCommandsRecognized ==
  /\ {<<"h","e","l","p">>, <<"w","h","o","a","m","i">>, <<"d","a","t","e">>, <<"u","p","t","i","m","e">>} \subseteq ListedCommands
  /\ \A k \in 1..Len(tasks) :
       (/\ tasks[k].pc # "delay"
        /\ at(split(tasks[k].command, " "), 0) \in ListedCommands)
         => ~startsWith(tasks[k].output, <<"C","o","m","m","a","n","d"," ","n","o","t"," ","f","o","u","n","d">>)

\* the steps of one submission, in order
StepOrder ==
  {<<"delay", "typing">>, <<"delay", "done">>, <<"typing", "pause">>,
   <<"pause", "done">>}

\* the submissions whose reply has been appended
Replied(ts) ==
  {k \in 1..Len(ts) : ts[k].pc = "done" /\ Truthy(ts[k].output)}

\* C20: a submission starts with its input line appended and the input field
\* cleared, waits for the delay, then types with isTyping set, and the step
\* that ends the typing sets isTyping false, empties the typing buffer and
\* appends the output line; lines never holds more output lines than
\* submissions whose typing is over
C20_StepOrder ==
  [][/\ \A k \in 1..Len(tasks') :
          IF k > Len(tasks)
            THEN /\ tasks'[k].pc = "delay"
                 /\ lines' = Append(lines, lines'[Len(lines')])
                 /\ lines'[Len(lines')].type = "input"
                 /\ lines'[Len(lines')].content
                      = prompt \o <<" ">> \o tasks'[k].command
                 /\ currentInput' = <<>>
                 /\ \E i \in 1..Len(timers') :
                      timers'[i] = Timer("delay", k, now + ProcessingDelayMs)
            ELSE /\ tasks'[k].pc # tasks[k].pc =>
                      <<tasks[k].pc, tasks'[k].pc>> \in StepOrder
                 /\ (mounted /\ tasks[k].pc = "delay"
                       /\ tasks'[k].pc = "typing") =>
                      /\ isTyping'
                      /\ Len(OutputLines(lines')) <= Len(OutputLines(lines))
                 /\ (mounted /\ tasks[k].pc = "typing"
                       /\ tasks'[k].pc = "pause") =>
                      lines' = lines
                 /\ (mounted /\ tasks[k].pc = "pause"
                       /\ tasks'[k].pc = "done") =>
                      /\ ~isTyping'
                      /\ typingText' = <<>>
                      /\ lines'[Len(lines')].type = "output"
                      /\ lines'[Len(lines')].content = tasks[k].output
     /\ Len(OutputLines(lines')) <= Cardinality(Replied(tasks'))]_vars

\* C20 witness: a reply is being typed; the last line is the input line of the
\* submission and the input field is empty
C20_Witness ==
  /\ mounted
  /\ isTyping
  /\ typingText # <<>>
  /\ currentInput = <<>>
  /\ Len(tasks) = 1
  /\ tasks[1].pc = "typing"
  /\ lines[Len(lines)].type = "input"
  /\ lines[Len(lines)].content = prompt \o <<" ">> \o tasks[1].command

\* C21: while a reply is typed the typing buffer is the prefix of the reply
\* that the ticks so far have revealed, and the whole reply after the last
\* tick, whenever the updater of setTypingText is evaluated
C21_BufferIsPrefix ==
  \A k \in 1..Len(tasks) :
    (mounted /\ tasks[k].pc \in {"typing", "pause"}) =>
      /\ typingText = SubSeq(tasks[k].output, 1, tasks[k].index)
      /\ tasks[k].pc = "pause" => typingText = tasks[k].output

\* the fullscreen command is due to be interpreted
FullscreenDue ==
  /\ Due("delay")
  /\ toLowerCase(tasks[timers[1].task].command) = <<"f","u","l","l","s","c","r","e","e","n">>

\* C22: when the mutation of a fullscreen command is applied the flag
\* becomes the negation of its value just before, and the reply says ON
\* exactly when the flag is true afterwards
C22_FullscreenToggles ==
  [][(mounted /\ FullscreenDue /\ DelayFire) =>
       /\ isFullscreen' = ~isFullscreen
       /\ tasks'[timers[1].task].output
            = <<"F","u","l","l","s","c","r","e","e","n",":"," ">> \o (IF isFullscreen' THEN <<"O","N">> ELSE <<"O","F","F">>)]_vars

\* C23: ArrowUp moves the history index from none to the newest entry and
\* otherwise one entry down, never below 0, and puts that entry in the input
\* field; with an empty history it changes neither; it appends no line and
\* no history entry
C23_ArrowUp ==
  [][KeyArrowUp =>
       /\ IF history = <<>>
            THEN UNCHANGED <<historyIndex, currentInput>>
            ELSE /\ historyIndex' =
                      (IF historyIndex = NoHistoryIndex THEN Len(history) - 1
                       ELSE IF historyIndex = 0 THEN 0
                       ELSE historyIndex - 1)
                 /\ historyIndex' \in 0..(Len(history) - 1)
                 /\ currentInput' = history[historyIndex' + 1]
       /\ UNCHANGED <<lines, history, tasks, timers>>]_vars

\* C23 witness: the index is at the oldest of two entries, which is in the
\* input field, and no submission is in flight
C23_Witness ==
  /\ InputRowRendered
  /\ ~InFlight
  /\ Len(history) = 2
  /\ historyIndex = 0
  /\ currentInput = history[1]

\* C24: ArrowDown at index i moves to i + 1 and puts history[i + 1] in the
\* input field when there is such an entry, and otherwise sets the index to
\* none and empties the input field; at none it changes nothing; it appends
\* no line and no history entry
C24_ArrowDown ==
  [][KeyArrowDown =>
       /\ IF historyIndex = NoHistoryIndex
            THEN UNCHANGED <<historyIndex, currentInput>>
            ELSE IF historyIndex + 1 < Len(history)
                   THEN /\ historyIndex' = historyIndex + 1
                        /\ currentInput' = history[historyIndex + 2]
                   ELSE /\ historyIndex' = NoHistoryIndex
                        /\ currentInput' = <<>>
       /\ UNCHANGED <<lines, history, tasks, timers>>]_vars

\* C24 witness: the index is at the newest of two different entries, which
\* is in the input field
C24_Witness ==
  /\ InputRowRendered
  /\ Len(history) = 2
  /\ history[1] # history[2]
  /\ historyIndex = 1
  /\ currentInput = history[2]

\* the keywords of Tab completion, in the order of the search
KeywordOrder ==
  <<<<"h","e","l","p">>, <<"c","p","u">>, <<"m","e","m">>, <<"p","s">>, <<"d","i","s","k">>, <<"n","e","t","w","o","r","k">>, <<"s","y","s","i","n","f","o">>,
    <<"u","p","t","i","m","e">>, <<"c","l","e","a","r">>, <<"h","i","s","t","o","r","y">>>>

HasPrefix(word, p) ==
  Len(p) <= Len(word) /\ \A i \in 1..Len(p) : word[i] = p[i]

\* the input field after Tab: the first keyword that begins with the input,
\* or the input when there is none
Completed(input) ==
  LET hits == {i \in 1..Len(KeywordOrder) : HasPrefix(KeywordOrder[i], input)}
  IN  IF hits = {} THEN input
      ELSE KeywordOrder[CHOOSE i \in hits : \A j \in hits : i <= j]

\* C25: Tab puts the first keyword that begins with the input in the input
\* field, or leaves it when no keyword does; a second Tab gives the same
\* again; lines, history and the history index are unchanged
C25_TabCompletes ==
  [][KeyTab =>
       /\ currentInput' = Completed(currentInput)
       /\ Completed(currentInput') = currentInput'
       /\ currentInput = <<"h">> => currentInput' = <<"h","e","l","p">>
       /\ currentInput = <<"c">> => currentInput' = <<"c","p","u">>
       /\ currentInput = <<"x","y">> => currentInput' = <<"x","y">>
       /\ UNCHANGED <<lines, history, historyIndex, tasks, timers>>]_vars

\* C25 witness: Tab completed s, which begins sysinfo only, before any
\* submission
C25_Witness ==
  /\ mounted
  /\ currentInput = <<"s","y","s","i","n","f","o">>
  /\ history = <<>>
  /\ lines = InitialLines(StartTime)

\* C26: Enter on an input that is not blank empties the input field in the
\* step that submits, before the delay and the typing, and appends an input
\* line made of the prompt of that moment, a space and the command
C26_EnterSubmits ==
  [][(KeyEnter /\ \E i \in 1..Len(currentInput) : currentInput[i] \notin WhiteSpace)
       => /\ currentInput' = <<>>
          /\ Len(tasks') = Len(tasks) + 1
          /\ tasks'[Len(tasks')].pc = "delay"
          /\ isTyping' = isTyping
          /\ Len(lines') = Len(lines) + 1
          /\ SubSeq(lines', 1, Len(lines)) = lines
          /\ lines'[Len(lines')].type = "input"
          /\ lines'[Len(lines')].content
               = prompt \o <<" ">> \o tasks'[Len(tasks')].command
          /\ tasks'[Len(tasks')].command = trim(currentInput)]_vars

\* C26 witness: echo a was submitted under the changed prompt and waits for
\* its delay; the input field is empty
C26_Witness ==
  /\ mounted
  /\ prompt = <<">",">">>
  /\ currentInput = <<>>
  /\ Len(tasks) = 2
  /\ tasks[2].pc = "delay"
  /\ lines[Len(lines)].type = "input"
  /\ lines[Len(lines)].content = <<">",">"," ","e","c","h","o"," ","a">>

\* the keyword prompt alone, or followed by a space and a remainder
IsPromptCommand(command) ==
  \/ toLowerCase(command) = <<"p","r","o","m","p","t">>
  \/ /\ Len(command) > 6
     /\ toLowerCase(SubSeq(command, 1, 6)) = <<"p","r","o","m","p","t">>
     /\ command[7] = " "

\* what follows the keyword and its space
PromptRemainder(command) ==
  SubSeq(command, 8, Len(command))

\* C27: a prompt command sets the prompt to the remainder of the line, which
\* may be empty, replies with a confirmation that names the new prompt, and
\* leaves theme, font size and fullscreen unchanged; an input line appended
\* afterwards begins with the new prompt
C27_PromptCommand ==
  [][/\ (/\ mounted
         /\ DelayFire
         /\ IsPromptCommand(tasks[timers[1].task].command)) =>
          /\ prompt' = PromptRemainder(tasks[timers[1].task].command)
          /\ tasks'[timers[1].task].output = <<"P","r","o","m","p","t"," ","c","h","a","n","g","e","d"," ","t","o",":"," ">> \o prompt'
          /\ UNCHANGED <<theme, fontSize, isFullscreen>>
     /\ (KeyEnter /\ Len(lines') > Len(lines)) =>
          lines'[Len(lines')].content
            = prompt \o <<" ">> \o tasks'[Len(tasks')].command]_vars

\* a command with its keyword, the part before the first space, in lower case
LowerKeyword(command) ==
  LET spaces == {i \in 1..Len(command) : command[i] = " "}
      n == IF spaces = {} THEN Len(command)
           ELSE (CHOOSE i \in spaces : \A j \in spaces : i <= j) - 1
  IN  toLowerCase(SubSeq(command, 1, n)) \o SubSeq(command, n + 1, Len(command))

\* C28: a command is interpreted as the same command with a lower-case
\* keyword: same reply and same mutation; the input line, the history entry,
\* the echo reply and the theme and prompt arguments keep the casing typed
C28_KeywordCasing ==
  [][/\ (mounted /\ DelayFire) =>
          LET k == timers[1].task
              c == tasks[k].command
              r == executeCommand(LowerKeyword(c), tasks[k].history,
                                  tasks[k].isFullscreen, now)
          IN  /\ tasks'[k].output = r.reply
              /\ theme' = IF r.mutation.kind = "theme" THEN r.mutation.arg
                          ELSE theme
              /\ prompt' = IF r.mutation.kind = "prompt" THEN r.mutation.arg
                           ELSE prompt
              /\ fontSize' = IF r.mutation.kind = "fontsize"
                               THEN r.mutation.arg ELSE fontSize
              /\ isFullscreen' = IF r.mutation.kind = "fullscreen"
                                   THEN r.mutation.arg ELSE isFullscreen
              /\ lines' = IF r.mutation.kind = "clear" THEN <<>> ELSE lines
              /\ c = <<"E","C","H","O"," ","H","i">> => tasks'[k].output = <<"H","i">>
              /\ c = <<"T","h","e","m","e"," ","m","a","t","r","i","x">> => theme' = <<"m","a","t","r","i","x">>
              /\ c = <<"T","H","E","M","E"," ","M","a","t","r","i","x">> =>
                   /\ theme' = theme
                   /\ tasks'[k].output = <<"A","v","a","i","l","a","b","l","e"," ","t","h","e","m","e","s",":"," ","d","a","r","k",","," ","l","i","g","h","t",","," ","m","a","t","r","i","x",","," ","r","e","t","r","o">>
              /\ c = <<"P","R","O","M","P","T"," ","A","b">> => prompt' = <<"A","b">>
              /\ c = <<"C","L","E","A","R">> => lines' = <<>> /\ tasks'[k].output = <<>>
              /\ c = <<"F","o","n","t","S","i","z","e"," ","1","2">> => fontSize' = 12
              /\ c = <<"F","U","L","L","S","C","R","E","E","N">> => isFullscreen' = ~isFullscreen
     /\ (KeyEnter /\ Len(tasks') > Len(tasks)) =>
          /\ tasks'[Len(tasks')].command \in vocabulary
          /\ history' = Append(history, tasks'[Len(tasks')].command)
          /\ lines'[Len(lines')].content
               = prompt \o <<" ">> \o tasks'[Len(tasks')].command]_vars

\* C28 witness: ECHO Hi and then Theme matrix were interpreted, and the
\* history holds both as typed
C28_Witness ==
  /\ mounted
  /\ ~InFlight
  /\ theme = <<"m","a","t","r","i","x">>
  /\ history = <<<<"E","C","H","O"," ","H","i">>, <<"T","h","e","m","e"," ","m","a","t","r","i","x">>>>
  /\ lines[Len(lines)].content = <<"T","h","e","m","e"," ","c","h","a","n","g","e","d"," ","t","o",":"," ","m","a","t","r","i","x">>
  /\ lines[Len(lines) - 2].content = <<"H","i">>

\* C30: while a reply is typed (isTyping true) the input field still takes
\* typed characters, ArrowUp, ArrowDown and Tab
C30_KeysWhileTyping ==
  (mounted /\ isTyping) =>
    /\ ENABLED (Change /\ UNCHANGED user)
    /\ ENABLED (KeyArrowUp /\ UNCHANGED user)
    /\ ENABLED (KeyArrowDown /\ UNCHANGED user)
    /\ ENABLED (KeyTab /\ UNCHANGED user)

\* the clear command is due to be interpreted
ClearFires ==
  /\ DelayFire
  /\ toLowerCase(tasks[timers[1].task].command) = <<"c","l","e","a","r">>

C32_OutputFollowsInput ==
  mounted =>
    \A i \in 1..Len(lines) :
      lines[i].type = "output" =>
        /\ i > 1
        /\ lines[i - 1].type = "input"

\* C33: isTyping is true whenever a reply is being revealed, and it is false
\* and the typing buffer empty whenever no submission is typing or in the
\* pause that ends the typing
C33_IsTypingExact ==
  mounted =>
    /\ (\E k \in 1..Len(tasks) : tasks[k].pc = "typing") => isTyping
    /\ (\A k \in 1..Len(tasks) : tasks[k].pc \notin {"typing", "pause"}) =>
         (~isTyping /\ typingText = <<>>)

=============================================================================
